---- MODULE Spec2Model ----
(***************************************************************************)
(* A model of airline_dashborad.py: the airline_data table read once at    *)
(* start, the two dropdowns (input-type, input-year), the five display     *)
(* slots plot1..plot5 and the get_graph callback with the two aggregators  *)
(* compute_data_choice_1 and compute_data_choice_2.                        *)
(*                                                                         *)
(* Encoding of a table: a sequence of rows, each row a record.  A cell of  *)
(* a column that may be missing is <<>> (pandas' NaN) or <<v>>; a cell of  *)
(* the other columns is the plain value.  A mean is NaN or the reduced     *)
(* fraction <<numerator, denominator>>.                                    *)
(***************************************************************************)
EXTENDS Integers, Sequences, FiniteSets, TLC

VARIABLES airline_data, loaded, input_type, input_year, plots,
          status, df, called, tables

vars == <<airline_data, loaded, input_type, input_year, plots,
          status, df, called, tables>>

-----------------------------------------------------------------------------
(* Cells *)

NaN == <<>>

\* A dropdown's value is None or <<v>>, v the option selected.
None == <<>>

Some(v) == <<v>>

\* The columns whose cells may be missing.
NullableCols ==
  {"CancellationCode", "AirTime", "DivAirportLandings", "CarrierDelay",
   "WeatherDelay", "NASDelay", "SecurityDelay", "LateAircraftDelay"}

StringCols == {"Reporting_Airline", "CancellationCode", "OriginState", "DestState"}

isnull(r, c) == c \in NullableCols /\ r[c] = NaN

\* The value of a cell that is not missing.
val(r, c) == IF c \in NullableCols THEN r[c][1] ELSE r[c]

\* The strings of the model in pandas' sort order (lexicographic).
StrOrd == <<"A", "AA", "B", "CA", "DL", "NY">>

Ord(c, v) ==
  IF c \in StringCols THEN CHOOSE i \in 1..Len(StrOrd) : StrOrd[i] = v ELSE v

-----------------------------------------------------------------------------
(* Bounds and input domains *)

MaxRows == 2

FirstYear == 2005

LastYear == 2020

year_list == FirstYear..LastYear

\* The years a record of the file may carry: the loader checks none of them.
FileYears == {FirstYear - 1, FirstYear, LastYear}

\* The years the user picks in the model: the first and the last option of
\* the dropdown and one no record of a file carries.
PickedYears == {FirstYear, FirstYear + 1, LastYear}

MeanCols ==
  {"AirTime", "CarrierDelay", "WeatherDelay", "NASDelay", "SecurityDelay",
   "LateAircraftDelay"}

DefaultRow ==
  [Year |-> FirstYear, Month |-> 1, Reporting_Airline |-> "AA",
   CancellationCode |-> NaN, AirTime |-> NaN, OriginState |-> "CA",
   DestState |-> "NY", Flights |-> 1, DivAirportLandings |-> Some(0),
   CarrierDelay |-> NaN, WeatherDelay |-> NaN, NASDelay |-> NaN,
   SecurityDelay |-> NaN, LateAircraftDelay |-> NaN]

\* Records differing in year, airline and flight count.
YearRows ==
  {[DefaultRow EXCEPT !.Year = y, !.Reporting_Airline = a, !.Flights = f] :
     y \in FileYears, a \in {"AA", "DL"}, f \in {1, 2}}

\* Records differing in the columns of the performance report: month,
\* cancellation code and flight count; origin, destination or airline;
\* diversions; year.
PerfRows ==
  {[DefaultRow EXCEPT !.Month = m, !.CancellationCode = c, !.Flights = f] :
     m \in {1, 2}, c \in {NaN, Some("A")}, f \in {1, 2}}
  \cup
  {[DefaultRow EXCEPT !.CancellationCode = Some("B")],
   [DefaultRow EXCEPT !.OriginState = "NY"],
   [DefaultRow EXCEPT !.DestState = "CA"],
   [DefaultRow EXCEPT !.Reporting_Airline = "DL"],
   [DefaultRow EXCEPT !.DivAirportLandings = NaN],
   [DefaultRow EXCEPT !.DivAirportLandings = Some(1)],
   [DefaultRow EXCEPT !.Year = LastYear]}

\* Records differing in month, or in one of the averaged columns.
DelayRows ==
  {[DefaultRow EXCEPT !.Month = m] : m \in {1, 2}}
  \cup
  {[DefaultRow EXCEPT ![c] = Some(v)] : c \in MeanCols, v \in {10, 25}}

SeqsUpTo(S, n) == UNION {[1..k -> S] : k \in 0..n}

-----------------------------------------------------------------------------
(* pandas *)

\* read_csv: the rows of the file under a RangeIndex 0..n-1.
read_csv(file) ==
  [i \in 1..Len(file) |->
     [c \in DOMAIN file[i] \cup {"index"} |->
        IF c = "index" THEN i - 1 ELSE file[i][c]]]

\* Mutant: the comparison written >= for ==.
YearFilterFrom(t, year) == SelectSeq(t, LAMBDA r : r.Year >= year)

\* Mutant: the whole table when no row matches.
YearFilterOrAll(t, year) ==
  IF SelectSeq(t, LAMBDA r : r.Year = year) = <<>> THEN t
  ELSE SelectSeq(t, LAMBDA r : r.Year = year)

\* airline_data[airline_data["Year"] == int(year)]: t[mask] is the rows the
\* mask holds of, in their order, index and columns kept.
YearFilter(t, year) == SelectSeq(t, LAMBDA r : r.Year = year)

\* The key of a row under the grouping columns by (a sequence of names).
KeyOf(r, by) == [j \in 1..Len(by) |-> val(r, by[j])]

HasNullKey(r, by) == \E j \in 1..Len(by) : isnull(r, by[j])

\* The values of column c in the rows of t that have one.
ColumnValues(t, c) == {val(t[i], c) : i \in {i \in 1..Len(t) : ~isnull(t[i], c)}}

\* Mutant: every combination of the values of the key columns (a groupby on
\* categorical columns with observed=False).
GroupKeysAllCombinations(t, by) ==
  IF Len(by) = 1 THEN {<<a>> : a \in ColumnValues(t, by[1])}
  ELSE {<<a, b>> : a \in ColumnValues(t, by[1]), b \in ColumnValues(t, by[2])}

\* groupby(by) with pandas' defaults (dropna=True): the distinct keys of the
\* rows none of whose key cells is missing.
GroupKeys(t, by) ==
  {KeyOf(t[i], by) : i \in {i \in 1..Len(t) : ~HasNullKey(t[i], by)}}

RECURSIVE KeyLess(_, _, _, _)
KeyLess(k1, k2, by, j) ==
  IF j > Len(by) THEN FALSE
  ELSE \/ Ord(by[j], k1[j]) < Ord(by[j], k2[j])
       \/ /\ k1[j] = k2[j]
          /\ KeyLess(k1, k2, by, j + 1)

\* groupby's sort=True: the keys in ascending lexicographic order.
RECURSIVE SortKeys(_, _)
SortKeys(K, by) ==
  IF K = {} THEN <<>>
  ELSE LET m == CHOOSE k \in K : \A k2 \in K \ {k} : KeyLess(k, k2, by, 1)
       IN <<m>> \o SortKeys(K \ {m}, by)

\* The rows of one group, in table order.
GroupRows(t, by, k) ==
  SelectSeq(t, LAMBDA r : ~HasNullKey(r, by) /\ KeyOf(r, by) = k)

\* Mutant: count() for sum().
SeriesSumAsCount(t, col) == Cardinality({i \in 1..Len(t) : ~isnull(t[i], col)})

\* Series.sum() with skipna: missing cells add nothing; no cell gives 0.
RECURSIVE SeriesSum(_, _)
SeriesSum(t, col) ==
  IF t = <<>> THEN 0
  ELSE (IF isnull(Head(t), col) THEN 0 ELSE val(Head(t), col))
       + SeriesSum(Tail(t), col)

\* Mutant: the rows counted, missing cells included.
SeriesCountAll(t, col) == Len(t)

\* Series.count(): the cells that are not missing.
RECURSIVE SeriesCount(_, _)
SeriesCount(t, col) ==
  IF t = <<>> THEN 0
  ELSE (IF isnull(Head(t), col) THEN 0 ELSE 1) + SeriesCount(Tail(t), col)

RECURSIVE Gcd(_, _)
Gcd(a, b) == IF b = 0 THEN a ELSE Gcd(b, a % b)

Frac(n, d) == LET g == Gcd(n, d) IN <<n \div g, d \div g>>

\* Mutant: missing cells filled with 0 before the mean.
SeriesMeanFillZero(t, col) ==
  IF t = <<>> THEN NaN ELSE Frac(SeriesSum(t, col), Len(t))

\* Series.mean() with skipna: NaN when every cell is missing.
SeriesMean(t, col) ==
  IF SeriesCount(t, col) = 0 THEN NaN
  ELSE Frac(SeriesSum(t, col), SeriesCount(t, col))

\* reset_index(): one row per group, the key columns and the value column;
\* value maps each key to the group's value.
ResetIndex(keys, by, col, value) ==
  [n \in 1..Len(keys) |->
     [c \in {by[j] : j \in 1..Len(by)} \cup {col} |->
        IF c = col THEN value[keys[n]]
        ELSE keys[n][CHOOSE j \in 1..Len(by) : by[j] = c]]]

\* df.groupby(by)[col].sum().reset_index()
GroupBySum(t, by, col) ==
  ResetIndex(SortKeys(GroupKeys(t, by), by), by, col,
             [k \in GroupKeys(t, by) |-> SeriesSum(GroupRows(t, by, k), col)])

\* df.groupby(by)[col].mean().reset_index()
GroupByMean(t, by, col) ==
  ResetIndex(SortKeys(GroupKeys(t, by), by), by, col,
             [k \in GroupKeys(t, by) |-> SeriesMean(GroupRows(t, by, k), col)])

\* x != 0.0 on a float cell: NaN compares unequal to every number.
NotEqual(cell, x) == cell = NaN \/ cell[1] # x

-----------------------------------------------------------------------------
(* The aggregators *)

DelayCols ==
  <<"CarrierDelay", "WeatherDelay", "NASDelay", "SecurityDelay",
    "LateAircraftDelay">>

\* bar_data, line_data, div_data, map_data, tree_data
compute_data_choice_1(t) ==
  <<GroupBySum(t, <<"Month", "CancellationCode">>, "Flights"),
    GroupByMean(t, <<"Month", "Reporting_Airline">>, "AirTime"),
    SelectSeq(t, LAMBDA r : NotEqual(r.DivAirportLandings, 0)),
    GroupBySum(t, <<"OriginState">>, "Flights"),
    GroupBySum(t, <<"DestState", "Reporting_Airline">>, "Flights")>>

\* avg_car, avg_weather, avg_NAS, avg_sec, avg_late
compute_data_choice_2(t) ==
  [n \in 1..5 |-> GroupByMean(t, <<"Month", "Reporting_Airline">>, DelayCols[n])]

-----------------------------------------------------------------------------
(* The callback *)

\* dcc.Graph(figure=px.<type>(data, ..., title=title))
Graph(type, data, title) == [type |-> type, data |-> data, title |-> title]

DelayTitles ==
  <<"Average carrier delay time (minutes) by airline",
    "Average weather delay time (minutes) by airline",
    "Average NAS delay time (minutes) by airline",
    "Average security delay time (minutes) by airline",
    "Average late aircraft delay time (minutes) by airline">>

\* Mutant: the figures returned in the order they are built.
PerformanceGraphsAsBuilt(d) ==
  <<<<Graph("bar", d[1], "Monthly Flight Cancellation")>>,
    <<Graph("line", d[2], "Average monthly flight time (minutes) by airline")>>,
    <<Graph("pie", d[3], "% of flights by reporting airline")>>,
    <<Graph("choropleth", d[4], "Number of flights from origin state")>>,
    <<Graph("treemap", d[5], "Flight count by airline to destination state")>>>>

\* The list get_graph returns in its OPT1 branch.  A slot's children are
\* written as the sequence of the components it holds.
PerformanceGraphs(d) ==
  <<<<Graph("treemap", d[5], "Flight count by airline to destination state")>>,
    <<Graph("pie", d[3], "% of flights by reporting airline")>>,
    <<Graph("choropleth", d[4], "Number of flights from origin state")>>,
    <<Graph("bar", d[1], "Monthly Flight Cancellation")>>,
    <<Graph("line", d[2], "Average monthly flight time (minutes) by airline")>>>>

\* The list get_graph returns in its else branch.
DelayGraphs(d) == [n \in 1..5 |-> <<Graph("line", d[n], DelayTitles[n])>>]

EmptySlots == <<<<>>, <<>>, <<>>, <<>>, <<>>>>

\* int(year): TypeError on None.
int(year) == year[1]

\* Mutant: slots that already hold a chart keep it.
get_graph_keep(chart, year, children1, children2, c3, c4, c5) ==
  IF year = None
  THEN [raised |-> TRUE, df |-> <<>>, called |-> "none", tables |-> <<>>,
        return |-> <<>>]
  ELSE LET t == YearFilter(airline_data, int(year))
           kept == children1 # <<>>
           old == <<children1, children2, c3, c4, c5>>
       IN IF chart = Some("OPT1")
          THEN LET d == compute_data_choice_1(t)
               IN [raised |-> FALSE, df |-> t,
                   called |-> "compute_data_choice_1", tables |-> d,
                   return |-> IF kept THEN old ELSE PerformanceGraphs(d)]
          ELSE LET d == compute_data_choice_2(t)
               IN [raised |-> FALSE, df |-> t,
                   called |-> "compute_data_choice_2", tables |-> d,
                   return |-> IF kept THEN old ELSE DelayGraphs(d)]

\* One call of get_graph: whether it raised, its local df, the aggregator it
\* called with the tables that returned, and the list it returns.  The five
\* State arguments are the slots' current children.
get_graph(chart, year, children1, children2, c3, c4, c5) ==
  IF year = None
  THEN [raised |-> TRUE, df |-> <<>>, called |-> "none", tables |-> <<>>,
        return |-> <<>>]
  ELSE LET t == YearFilter(airline_data, int(year))
       IN IF chart = Some("OPT1")
          THEN LET d == compute_data_choice_1(t)
               IN [raised |-> FALSE, df |-> t,
                   called |-> "compute_data_choice_1", tables |-> d,
                   return |-> PerformanceGraphs(d)]
          ELSE LET d == compute_data_choice_2(t)
               IN [raised |-> FALSE, df |-> t,
                   called |-> "compute_data_choice_2", tables |-> d,
                   return |-> DelayGraphs(d)]

\* One request cycle: Dash calls get_graph with the dropdowns' values and the
\* slots' children, and writes the returned list to the slots; when get_graph
\* raises, no slot is written.
Callback(chart, year) ==
  LET g == get_graph(chart, year, plots[1], plots[2], plots[3], plots[4],
                     plots[5])
  IN /\ input_type' = chart
     /\ input_year' = year
     /\ status' = IF g.raised THEN "raised" ELSE "done"
     /\ df' = g.df
     /\ called' = g.called
     /\ tables' = g.tables
     /\ plots' = IF g.raised THEN plots ELSE g.return
     /\ UNCHANGED airline_data

\* The state once the module is imported: the file read, the layout built.
InitFrom(Rows) ==
  /\ \E file \in SeqsUpTo(Rows, MaxRows) : airline_data = read_csv(file)
  /\ loaded = FALSE
  /\ input_type = None
  /\ input_year = None
  /\ plots = EmptySlots
  /\ status = "none"
  /\ df = <<>>
  /\ called = "none"
  /\ tables = <<>>

Init == InitFrom(YearRows)

InitPerf == InitFrom(PerfRows)

InitDelay == InitFrom(DelayRows)

\* The page is served: Dash fires the callback once with both dropdowns unset.
PageLoad ==
  /\ ~loaded
  /\ loaded' = TRUE
  /\ Callback(None, None)

SelectType(c) ==
  /\ loaded
  /\ Some(c) # input_type
  /\ Callback(Some(c), input_year)
  /\ UNCHANGED loaded

SelectYear(y) ==
  /\ loaded
  /\ Some(y) # input_year
  /\ Callback(input_type, Some(y))
  /\ UNCHANGED loaded

ClearType ==
  /\ loaded
  /\ input_type # None
  /\ Callback(None, input_year)
  /\ UNCHANGED loaded

ClearYear ==
  /\ loaded
  /\ input_year # None
  /\ Callback(input_type, None)
  /\ UNCHANGED loaded

Next ==
  \/ PageLoad
  \/ \E c \in {"OPT1", "OPT2"} : SelectType(c)
  \/ \E y \in PickedYears : SelectYear(y)
  \/ ClearType
  \/ ClearYear

Spec == Init /\ [][Next]_vars

SpecPerf == InitPerf /\ [][Next]_vars

SpecDelay == InitDelay /\ [][Next]_vars

-----------------------------------------------------------------------------
(* Statements *)

Idx(t) == 1..Len(t)

RECURSIVE SumOver(_, _)
SumOver(f, S) ==
  IF S = {} THEN 0
  ELSE LET x == CHOOSE x \in S : TRUE IN f[x] + SumOver(f, S \ {x})

IndexSet(t) == {t[n].index : n \in Idx(t)}

\* C1: in every request cycle, if the report type or the year is unset then
\* no aggregator is called and the cycle renders no chart.
C1_UnsetSelectionRunsNothing ==
  (status # "none" /\ (input_type = None \/ input_year = None))
    => (called = "none" /\ status = "raised")

\* f holds exactly the rows of t whose Year is Y, unchanged and in t's order.
IsFilterOf(f, t, Y) ==
  /\ \A n \in Idx(f) : f[n].Year = Y /\ f[n] = t[f[n].index + 1]
  /\ \A n \in Idx(f) : \A m \in Idx(f) : n < m => f[n].index < f[m].index
  /\ IndexSet(f) = {t[i].index : i \in {i \in Idx(t) : t[i].Year = Y}}

FiltersRight ==
  /\ \A Y \in year_list : IsFilterOf(YearFilter(airline_data, Y), airline_data, Y)
  /\ status = "done" => IsFilterOf(df, airline_data, int(input_year))
  /\ \A Y1 \in year_list : \A Y2 \in year_list \ {Y1} :
       IndexSet(YearFilter(airline_data, Y1))
         \cap IndexSet(YearFilter(airline_data, Y2)) = {}

\* C2 as amended: for every year Y of year_list the filter returns exactly the
\* rows whose Year is Y, in their order and with all columns; the results for
\* distinct years are disjoint, and their union is the set of the rows whose
\* Year lies in year_list.
C2_FilterPartitionsListedYears ==
  /\ FiltersRight
  /\ UNION {IndexSet(YearFilter(airline_data, Y)) : Y \in year_list}
       = {airline_data[i].index :
            i \in {i \in Idx(airline_data) : airline_data[i].Year \in year_list}}

\* C2 as claimed: ... and their union is the whole dataset.
C2_FilterPartitionsDataset ==
  status = "done" =>
    /\ FiltersRight
    /\ UNION {IndexSet(YearFilter(airline_data, Y)) : Y \in year_list}
         = IndexSet(airline_data)

\* A cycle has filtered a table holding a row of the year, before it a row of
\* a year outside year_list.
C2_Witness ==
  /\ status = "done"
  /\ Len(airline_data) = 2
  /\ airline_data[1].Year \notin year_list
  /\ df = <<airline_data[2]>>

\* C6: a completed cycle leaves exactly one chart in each of the five slots:
\* for OPT1 the treemap of tree_data, the pie of div_data, the choropleth of
\* map_data, the bar chart of bar_data and the line chart of line_data, with
\* compute_data_choice_1 alone called; for OPT2 the line charts of the
\* carrier, weather, NAS, security and late-aircraft means, with
\* compute_data_choice_2 alone called.
C6_SlotsBoundPerMode ==
  status = "done" =>
    /\ Len(plots) = 5
    /\ \A n \in 1..5 : Len(plots[n]) = 1
    /\ input_type = Some("OPT1") =>
         /\ called = "compute_data_choice_1"
         /\ tables = compute_data_choice_1(df)
         /\ <<plots[1][1].type, plots[2][1].type, plots[3][1].type,
              plots[4][1].type, plots[5][1].type>>
              = <<"treemap", "pie", "choropleth", "bar", "line">>
         /\ plots[1][1].data = GroupBySum(df, <<"DestState", "Reporting_Airline">>, "Flights")
         /\ plots[2][1].data = tables[3]
         /\ plots[3][1].data = GroupBySum(df, <<"OriginState">>, "Flights")
         /\ plots[4][1].data = GroupBySum(df, <<"Month", "CancellationCode">>, "Flights")
         /\ plots[5][1].data = GroupByMean(df, <<"Month", "Reporting_Airline">>, "AirTime")
    /\ input_type = Some("OPT2") =>
         /\ called = "compute_data_choice_2"
         /\ tables = compute_data_choice_2(df)
         /\ \A n \in 1..5 :
              /\ plots[n][1].type = "line"
              /\ plots[n][1].title = DelayTitles[n]
              /\ plots[n][1].data =
                   GroupByMean(df, <<"Month", "Reporting_Airline">>, DelayCols[n])

\* A performance cycle over a year with rows has replaced delay charts.
C6_Witness ==
  /\ status = "done"
  /\ input_type = Some("OPT1")
  /\ Len(df) = 2
  /\ plots[1][1].type = "treemap"
  /\ Len(plots[1][1].data) = 2

NoRowOfYear == \A i \in Idx(airline_data) : airline_data[i].Year # int(input_year)

\* C7: a cycle for a year of year_list that no row carries does not raise:
\* the filter returns the empty table and each aggregator returns five tables
\* with no rows.
C7_EmptyYearGivesEmptyTables ==
  (status # "none" /\ input_year # None /\ NoRowOfYear) =>
    /\ status = "done"
    /\ df = <<>>
    /\ Len(tables) = 5
    /\ \A n \in 1..5 : tables[n] = <<>>
    /\ \A n \in 1..5 : /\ compute_data_choice_1(df)[n] = <<>>
                       /\ compute_data_choice_2(df)[n] = <<>>

\* A cycle for a year without rows over a table that has rows.
C7_Witness ==
  /\ status = "done"
  /\ airline_data # <<>>
  /\ int(input_year) \in year_list
  /\ NoRowOfYear
  /\ called = "compute_data_choice_1"

\* C9: what a completed cycle leaves (the filtered table, the derived tables,
\* the five slots) is what get_graph gives for the current selection and the
\* loaded table from empty slots: no earlier cycle and no content of the
\* slots passed in as State shows in it.
C9_ResultDependsOnSelectionOnly ==
  status = "done" =>
    LET g == get_graph(input_type, input_year, <<>>, <<>>, <<>>, <<>>, <<>>)
    IN /\ ~g.raised
       /\ df = g.df
       /\ called = g.called
       /\ tables = g.tables
       /\ plots = g.return

\* A completed delay cycle for the last year over a table with rows of it,
\* reached after other cycles (a selection takes two).
C9_Witness ==
  /\ status = "done"
  /\ input_type = Some("OPT2")
  /\ input_year = Some(LastYear)
  /\ df # <<>>
  /\ plots[1][1].title = DelayTitles[1]

-----------------------------------------------------------------------------
(* Statements on the performance report *)

FlightsOf(t) == [i \in Idx(t) |-> t[i].Flights]

KeyPresent(r, by) == \A j \in 1..Len(by) : ~isnull(r, by[j])

\* The Flights of out add up to the Flights of the rows of src that have
\* every cell of the key by.
MassOfKeyedRows(out, src, by) ==
  SumOver(FlightsOf(out), Idx(out))
    = SumOver(FlightsOf(src), {i \in Idx(src) : KeyPresent(src[i], by)})

\* The Flights of out add up to the Flights of all rows of src.
MassOfAllRows(out, src) ==
  SumOver(FlightsOf(out), Idx(out)) = SumOver(FlightsOf(src), Idx(src))

\* C3 as amended: the Flights column of each sum-based table of
\* compute_data_choice_1 adds up to the Flights of those rows of the filtered
\* table none of whose grouping cells is missing; a row with a missing
\* CancellationCode adds nothing to MonthlyCancellation.
C3_SumsKeepMassOfKeyedRows ==
  called = "compute_data_choice_1" =>
    /\ MassOfKeyedRows(tables[1], df, <<"Month", "CancellationCode">>)
    /\ MassOfKeyedRows(tables[4], df, <<"OriginState">>)
    /\ MassOfKeyedRows(tables[5], df, <<"DestState", "Reporting_Airline">>)

\* C3 as claimed: each of the three adds up to the Flights of all rows of the
\* filtered table, rows with a missing grouping cell included.
C3_SumsKeepMassOfAllRows ==
  called = "compute_data_choice_1" =>
    /\ MassOfAllRows(tables[1], df)
    /\ MassOfAllRows(tables[4], df)
    /\ MassOfAllRows(tables[5], df)

\* A performance cycle over a cancelled flight and a flight with no
\* cancellation code, two flights each.
C3_Witness ==
  /\ called = "compute_data_choice_1"
  /\ Len(df) = 2
  /\ df[1].CancellationCode = NaN /\ df[1].Flights = 2
  /\ df[2].CancellationCode # NaN /\ df[2].Flights = 2
  /\ Len(tables[1]) = 1

OutKeys(out, by) == {[j \in 1..Len(by) |-> out[n][by[j]]] : n \in Idx(out)}

KeysOfKeyedRows(src, by) ==
  {[j \in 1..Len(by) |-> val(src[i], by[j])] :
     i \in {i \in Idx(src) : KeyPresent(src[i], by)}}

\* The key cells of the rows as they stand, a missing cell being a value.
RawKeys(src, by) == {[j \in 1..Len(by) |-> src[i][by[j]]] : i \in Idx(src)}

OneRowPerKey(out, src, by) ==
  /\ Cardinality(OutKeys(out, by)) = Len(out)
  /\ OutKeys(out, by) = KeysOfKeyedRows(src, by)

OneRowPerRawKey(out, src, by) ==
  /\ Cardinality(OutKeys(out, by)) = Len(out)
  /\ OutKeys(out, by) \subseteq KeysOfKeyedRows(src, by)
  /\ Len(out) = Cardinality(RawKeys(src, by))

\* C8 as amended: each grouped table holds exactly one row for each distinct
\* key combination, with no cell missing, of some row of the filtered table:
\* no key twice, no key of no row; a row with a missing key cell gives no
\* output row.
C8_OneRowPerPresentKey ==
  /\ called = "compute_data_choice_1" =>
       /\ OneRowPerKey(tables[1], df, <<"Month", "CancellationCode">>)
       /\ OneRowPerKey(tables[2], df, <<"Month", "Reporting_Airline">>)
       /\ OneRowPerKey(tables[4], df, <<"OriginState">>)
       /\ OneRowPerKey(tables[5], df, <<"DestState", "Reporting_Airline">>)
  /\ called = "compute_data_choice_2" =>
       \A n \in 1..5 : OneRowPerKey(tables[n], df, <<"Month", "Reporting_Airline">>)

\* C8 as claimed: exactly one row for each distinct key combination that
\* occurs in a row of the filtered table.
C8_OneRowPerKey ==
  /\ called = "compute_data_choice_1" =>
       /\ OneRowPerRawKey(tables[1], df, <<"Month", "CancellationCode">>)
       /\ OneRowPerRawKey(tables[2], df, <<"Month", "Reporting_Airline">>)
       /\ OneRowPerRawKey(tables[4], df, <<"OriginState">>)
       /\ OneRowPerRawKey(tables[5], df, <<"DestState", "Reporting_Airline">>)
  /\ called = "compute_data_choice_2" =>
       \A n \in 1..5 : OneRowPerRawKey(tables[n], df, <<"Month", "Reporting_Airline">>)

\* Two rows of month 1 and code "A", of 1 and 2 flights, give the one row
\* (1, "A", 3).
C8_Witness ==
  /\ called = "compute_data_choice_1"
  /\ Len(df) = 2
  /\ df[1].Flights = 1 /\ df[2].Flights = 2
  /\ tables[1] = <<[Month |-> 1, CancellationCode |-> "A", Flights |-> 3]>>

\* C10: DivertedSubset holds exactly the rows of the filtered table whose
\* DivAirportLandings is present and not 0, unchanged and in their order.
C10_DivertedSubsetIsPresentNonZero ==
  called = "compute_data_choice_1" =>
    tables[3] = SelectSeq(df, LAMBDA r : /\ r.DivAirportLandings # NaN
                                         /\ r.DivAirportLandings[1] # 0)

-----------------------------------------------------------------------------
(* Statements on the means *)

\* The rows of src in the group (month, airline) that have a value in col.
ValuedRows(src, month, airline, col) ==
  {i \in Idx(src) : /\ src[i].Month = month
                    /\ src[i].Reporting_Airline = airline
                    /\ src[i][col] # NaN}

ValuesOf(src, col) ==
  [i \in Idx(src) |-> IF src[i][col] = NaN THEN 0 ELSE src[i][col][1]]

\* The mean m is the sum of the values of the rows S over their number.
IsMeanOf(m, src, col, S) ==
  /\ S # {}
  /\ m # NaN
  /\ m[2] > 0
  /\ m[1] * Cardinality(S) = SumOver(ValuesOf(src, col), S) * m[2]

\* Every group of src has its row in out, and every row of out carries the
\* mean of the present values of its group (NaN for a group with none).
MeansOfPresentValues(out, src, col) ==
  /\ \A i \in Idx(src) : \E n \in Idx(out) :
       /\ out[n].Month = src[i].Month
       /\ out[n].Reporting_Airline = src[i].Reporting_Airline
  /\ \A n \in Idx(out) :
       LET S == ValuedRows(src, out[n].Month, out[n].Reporting_Airline, col)
       IN IF S = {} THEN out[n][col] = NaN
          ELSE IsMeanOf(out[n][col], src, col, S)

\* C4: each mean of compute_data_choice_2, and the AirTime mean of
\* compute_data_choice_1, is for its (Month, Reporting_Airline) group the
\* sum of the values present in the column over the number of values
\* present; a missing value enters neither.
C4_MeansSkipMissingValues ==
  /\ called = "compute_data_choice_2" =>
       \A n \in 1..5 : MeansOfPresentValues(tables[n], df, DelayCols[n])
  /\ called = "compute_data_choice_1" =>
       MeansOfPresentValues(tables[2], df, "AirTime")

\* A delay cycle over a group of two rows, one with a weather delay of 25
\* and one with none: the mean is 25, not 12.5.
C4_Witness ==
  /\ called = "compute_data_choice_2"
  /\ Len(df) = 2
  /\ df[1].WeatherDelay = NaN
  /\ df[2].WeatherDelay = Some(25)
  /\ Len(tables[2]) = 1
  /\ tables[2][1].WeatherDelay = <<25, 1>>

AllMissing(src, col) == \A i \in Idx(src) : src[i][col] = NaN

MonthAirlinePairs(t) == {<<t[i].Month, t[i].Reporting_Airline>> : i \in Idx(t)}

\* C5 as amended: for a delay cause missing in every row of the filtered
\* table, compute_data_choice_2 gives one row for each (Month,
\* Reporting_Airline) group of the filtered table, each carrying a missing
\* mean, never 0; the table has no rows only when the filtered table has none.
C5_AllMissingCauseGivesNaNRows ==
  called = "compute_data_choice_2" =>
    \A n \in 1..5 :
      AllMissing(df, DelayCols[n]) =>
        /\ MonthAirlinePairs(tables[n]) = MonthAirlinePairs(df)
        /\ Len(tables[n]) = Cardinality(MonthAirlinePairs(df))
        /\ \A m \in Idx(tables[n]) : tables[n][m][DelayCols[n]] = NaN

\* C5 as claimed: for a delay cause missing in every row of a filtered table
\* that has rows, the cause's table has no rows.
C5_AllMissingCauseGivesNoRows ==
  (called = "compute_data_choice_2" /\ df # <<>>) =>
    \A n \in 1..5 : AllMissing(df, DelayCols[n]) => tables[n] = <<>>

\* A delay cycle over rows of two months, with a carrier delay and no
\* weather delay at all.
C5_Witness ==
  /\ called = "compute_data_choice_2"
  /\ Len(df) = 2
  /\ df[1].Month # df[2].Month
  /\ AllMissing(df, "WeatherDelay")
  /\ Len(tables[2]) = 2
  /\ tables[2][1].WeatherDelay = NaN

====
